---- MODULE Spec2Model ----
(***************************************************************************)
(* The RTP player dialog (ui/qt/rtp_player_dialog.cpp) and the stream      *)
(* timing / resequencing engine it drives (RtpAudioStream).                *)
(*                                                                         *)
(* The dialog is modelled from rtp_player_dialog.cpp.  RtpAudioStream's    *)
(* own code (isMatch, addRtpPacket, reset, decode, ...) is not part of the *)
(* source tree at hand; it is modelled from the design document            *)
(* (sections 3, 4.1, 4.2 and 6).                                           *)
(*                                                                         *)
(* Time is counted in ticks; a sample of payload type pt lasts             *)
(* SamplePeriod(pt) ticks.  A PCM sample is abstracted to the pair         *)
(* (frame number of the packet it was decoded from, index in the packet);  *)
(* silence is the pair (0, 0).                                             *)
(***************************************************************************)
EXTENDS Integers, Sequences, FiniteSets, TLC

(***************************************************************************)
(* Bounds of the model.                                                    *)
(***************************************************************************)
MaxStreams == 2
MaxPackets == 3
MaxDepth == 1
MaxStartTime == 1

MaxSecs == 2

(***************************************************************************)
(* RTP arithmetic: sequence numbers are 16 bit, timestamps 32 bit.  A      *)
(* timestamp is kept as its two 16-bit halves so that no intermediate      *)
(* value leaves the 32-bit signed range.                                   *)
(***************************************************************************)
Two16 == 65536

Two15 == 32768

\* a difference of sequence numbers taken as it is, without the fold into
\* the signed 16-bit range
wrap16Plain(d) == d

\* wrap16: the difference of two sequence numbers as a signed 16-bit value
wrap16(d) ==
    LET m == d % Two16
    IN  IF m >= Two15 THEN m - Two16 ELSE m

SeqNext(s) == (s + 1) % Two16

Ts(hi, lo) == [hi |-> hi, lo |-> lo]

\* t + n modulo 2^32, for an n of either sign
TsAdd(t, n) ==
    LET l == t.lo + n
        lo == l % Two16
        carry == (l - lo) \div Two16
    IN  [hi |-> (t.hi + carry) % Two16, lo |-> lo]

\* wrap32: a - b modulo 2^32 as a signed 32-bit value
TsDiff(a, b) ==
    LET dl == a.lo - b.lo
        borrow == IF dl < 0 THEN 1 ELSE 0
        lo == dl + borrow * Two16
        hi == (a.hi - b.hi - borrow) % Two16
        shi == IF hi >= Two15 THEN hi - Two16 ELSE hi
    IN  shi * Two16 + lo

Abs(x) == IF x < 0 THEN 0 - x ELSE x

(***************************************************************************)
(* RtpAudioStream::TimingMode                                              *)
(***************************************************************************)
JitterBuffer == 0

RtpTimestamp == 1

Uninterrupted == 2

TimingModes == {JitterBuffer, RtpTimestamp, Uninterrupted}

(***************************************************************************)
(* PayloadDecoder: sample rate and frame size per payload type.  Payload   *)
(* type 0 is an 8 kHz codec, 9 a 16 kHz codec; every other payload type    *)
(* is unrecognised (rate 0).  Rates are scaled: TicksPerSecond ticks make  *)
(* a second.                                                               *)
(***************************************************************************)
TicksPerSecond == 4

PT8k == 0

PT16k == 9

PTUnknown == 127

SampleRate(pt) ==
    IF pt = PT8k THEN 2 ELSE IF pt = PT16k THEN 4 ELSE 0

\* ticks per sample; only asked of a non-zero rate
SamplePeriod(rate) == TicksPerSecond \div rate

\* samples one packet carries
SamplesPerPacket == 2

\* large_skew_threshold: SkewSeconds of sample clock
SkewSeconds == 2

SkewThreshold(rate) == SkewSeconds * rate

(***************************************************************************)
(* Stream keys and the capture file.                                       *)
(***************************************************************************)
Key(sa, sp, da, dp, ssrc) ==
    [src_addr |-> sa, src_port |-> sp, dst_addr |-> da, dst_port |-> dp, ssrc |-> ssrc]

K1 == Key("a", 10, "b", 20, 1)

K2 == Key("a", 10, "b", 20, 2)

Keys == {K1, K2}

\* the sequence number of packet 0 of a generated stream: two before the
\* 16-bit wrap
BaseSeq == Two16 - 2

\* the low half of the timestamp of that packet, its high half being 65535:
\* two packets before the 32-bit wrap
BaseLo == Two16 - 2 * SamplesPerPacket

\* The n-th packet of a generated stream, its timestamp skew samples off
Pkt(key, n, skew, pt, ok, version, shown) ==
    LET x == BaseLo + n * SamplesPerPacket + skew
    IN  [key |-> key,
         seq |-> (BaseSeq + n) % Two16,
         ts |-> Ts((Two16 - 1 + (x \div Two16)) % Two16, x % Two16),
         pt |-> pt, ok |-> ok,
         info_version |-> version, passed_dfilter |-> shown]

FarSkew == SkewThreshold(SampleRate(PT8k)) + 1

\* the packets of a capture that holds one stream: in order, reordered, lost,
\* with a wrong timestamp, with a payload that does not decode
StreamPool ==
    {Pkt(K1, n, 0, PT8k, TRUE, 2, 1) : n \in 0..3}
    \cup {Pkt(K1, 2, FarSkew, PT8k, TRUE, 2, 1),
          Pkt(K1, 1, 0, PT8k, FALSE, 2, 1)}

\* packets of one stream that run ahead of one another: the stream's first
\* packet and two that follow a missing one
JitterPool == {Pkt(K1, n, 0, PT8k, TRUE, 2, 1) : n \in {0, 2, 3}}

\* packets of one stream of which two carry the same timestamp (one of them
\* does not decode) and one a timestamp one sample early, inside the range
\* of its predecessor
TimestampPool ==
    {Pkt(K1, n, 0, PT8k, TRUE, 2, 1) : n \in {0, 1, 3}}
    \cup {Pkt(K1, 1, 0, PT8k, FALSE, 2, 1),
          Pkt(K1, 2, 0 - 1, PT8k, TRUE, 2, 1)}

\* packets of one stream that changes its payload type: to a codec of
\* another rate, and to a payload type that is not recognized
PayloadPool ==
    {Pkt(K1, n, 0, PT8k, TRUE, 2, 1) : n \in {0, 1}}
    \cup {Pkt(K1, n, 0, PT16k, TRUE, 2, 1) : n \in {1, 2}}
    \cup {Pkt(K1, n, 0, PTUnknown, TRUE, 2, 1) : n \in {0, 2}}

\* the packets of a capture that holds two streams and packets the tap ignores
MixedPool ==
    {Pkt(K1, 0, 0, PT8k, TRUE, 2, 1),
     Pkt(K1, 1, 0, PT8k, TRUE, 2, 1),
     Pkt(K1, 2, 0, PT8k, TRUE, 2, 1),
     Pkt(K2, 0, 0, PT8k, TRUE, 2, 1),
     Pkt(K1, 0, 0, PT8k, TRUE, 1, 1),
     Pkt(K1, 0, 0, PT8k, TRUE, 2, 0)}

(***************************************************************************)
(* State.                                                                  *)
(***************************************************************************)
VARIABLES
    feed,             \* what the capture file holds: "mixed", "single", "jitter", "example",
                      \* "timestamp", "payload" or "playback"
    streams,          \* streamTreeWidget's rows, each with its RtpAudioStream
    start_rel_time_,  \* RtpPlayerDialog::start_rel_time_
    jitterSpinBox,    \* ui->jitterSpinBox->value()
    timingComboBox,   \* ui->timingComboBox->currentIndex()
    pc,               \* where the dialog's event handling stands ("closed": after accept)
    tapped,           \* packets of the capture the running retap has delivered
    retapped,         \* retapPackets has run
    row,              \* the row rescanPackets' second loop is at
    snap,             \* the rows as the last rescan left them, while a rescan repeats it
    enabled,          \* which controls updateWidgets left enabled
    hint,             \* what updateHintLabel is showing: the hovered row and time, the packet found
    cur_play_pos_,    \* the playback cursor: its position (point1's key) and whether it is visible
    reported          \* the largest position the cursor was given since play was last pressed

vars == <<feed, streams, start_rel_time_, jitterSpinBox, timingComboBox,
          pc, tapped, retapped, row, snap, enabled, hint, cur_play_pos_, reported>>

(***************************************************************************)
(* RtpAudioStream                                                          *)
(***************************************************************************)
Silence == [f |-> 0, k |-> 0]

Categories == {"Accept", "OutOfSequence", "WrongTimestamp", "JitterDrop", "DecodeFailed"}

\* new RtpAudioStream(parent, rtpstream): idle, no packets
NewStream(rtpstream) ==
    [key |-> rtpstream.key, start_rel_time |-> rtpstream.start_rel_time,
     output_state |-> "Idle", packets |-> <<>>,
     start_time |-> 0, jitter_buffer_size |-> 0, timing_mode |-> JitterBuffer,
     timeline |-> <<>>,
     out_of_seq |-> <<>>, jitter_drop |-> <<>>, wrong_ts |-> <<>>, silence |-> <<>>,
     n_accepted |-> 0, n_failed |-> 0, cls |-> <<>>,
     jbuf |-> <<>>,
     active |-> FALSE, order |-> <<>>, cur |-> 1, started |-> FALSE,
     exp_seq |-> 0, exp_ts |-> Ts(0, 0), start_ts |-> Ts(0, 0), seg_t0 |-> 0, rate |-> 0,
     decoded |-> FALSE]

\* isMatch: the stream's key against a key (of an rtpstream_info or a packet)
isMatch(s, key) == s.key = key

\* addRtpPacket: append-only, in arrival order
addRtpPacket(s, p, frame) ==
    [s EXCEPT !.packets = Append(@, [seq |-> p.seq, ts |-> p.ts, pt |-> p.pt, ok |-> p.ok,
                                      frame |-> frame, arr |-> frame]),
              !.cls = Append(@, {})]

\* reset(start_time): clears timeline and counters, empties the jitter buffer,
\* keeps the accumulated packet set
reset(s, t) ==
    [s EXCEPT !.start_time = t,
              !.timeline = <<>>,
              !.out_of_seq = <<>>, !.jitter_drop = <<>>, !.wrong_ts = <<>>, !.silence = <<>>,
              !.n_accepted = 0, !.n_failed = 0,
              !.cls = [i \in 1..Len(s.packets) |-> {}],
              !.jbuf = <<>>]

setJitterBufferSize(s, n) == [s EXCEPT !.jitter_buffer_size = n]

setTimingMode(s, m) == [s EXCEPT !.timing_mode = m]

(***************************************************************************)
(* decode(): the pass over the stored packets.  One step handles one       *)
(* packet: the next packet of the chosen order, or one the jitter buffer   *)
(* holds.                                                                  *)
(***************************************************************************)
\* the end of the timeline taken to be the time of its last sample
EndTimeOfLast(s) ==
    IF s.timeline = <<>> THEN s.start_time ELSE s.timeline[Len(s.timeline)].t

\* where the next sample goes: one sample period after the last one
EndTime(s) ==
    IF s.timeline = <<>>
    THEN s.start_time
    ELSE LET l == s.timeline[Len(s.timeline)] IN l.t + SamplePeriod(l.rate)

\* vals appended to the timeline, one sample period apart, at the given rate
AppendSamples(s, vals, rate) ==
    LET t0 == EndTime(s)
        per == SamplePeriod(rate)
    IN  s.timeline \o [i \in 1..Len(vals) |-> [t |-> t0 + (i - 1) * per, v |-> vals[i], rate |-> rate]]

PacketSamples(p) == [k \in 1..SamplesPerPacket |-> [f |-> p.frame, k |-> k]]

SilenceSamples(n) == [k \in 1..n |-> Silence]

\* step 1: the packets by RTP timestamp (wraparound-aware, relative to the
\* first stored packet, ties in arrival order) or by arrival order
TsKey(pk, i) == TsDiff(pk[i].ts, pk[1].ts)

TsBefore(pk, i, j) ==
    \/ TsKey(pk, i) < TsKey(pk, j)
    \/ TsKey(pk, i) = TsKey(pk, j) /\ i <= j

RECURSIVE SortByTs(_, _)
SortByTs(pk, rem) ==
    IF rem = {}
    THEN <<>>
    ELSE LET m == CHOOSE i \in rem : \A j \in rem : TsBefore(pk, i, j)
         IN  <<m>> \o SortByTs(pk, rem \ {m})

PacketOrder(s) ==
    IF s.timing_mode = RtpTimestamp
    THEN SortByTs(s.packets, 1..Len(s.packets))
    ELSE [i \in 1..Len(s.packets) |-> i]

BeginPass(s) ==
    [s EXCEPT !.active = TRUE, !.order = PacketOrder(s), !.cur = 1, !.started = FALSE,
              !.exp_seq = 0, !.exp_ts = Ts(0, 0), !.start_ts = Ts(0, 0),
              !.seg_t0 = 0, !.rate = 0]

\* the timestamp expected of packet p, d packets after the expected one
ExpectedTs(s, p) == TsAdd(s.exp_ts, wrap16(p.seq - s.exp_seq) * SamplesPerPacket)

\* a classifier that does not look at the sequence number
classifyNoSeq(s, p) ==
    IF /\ s.rate # 0
       /\ SampleRate(p.pt) = s.rate
       /\ Abs(TsDiff(p.ts, ExpectedTs(s, p))) > SkewThreshold(s.rate)
    THEN "WrongTimestamp"
    ELSE "Accept"

\* TimingClassifier: classify(state, packet)
classify(s, p) ==
    IF wrap16(p.seq - s.exp_seq) < 0
    THEN "OutOfSequence"
    ELSE IF /\ s.rate # 0
            /\ SampleRate(p.pt) = s.rate
            /\ Abs(TsDiff(p.ts, ExpectedTs(s, p))) > SkewThreshold(s.rate)
         THEN "WrongTimestamp"
         ELSE "Accept"

RecordOutOfSequence(s, i) ==
    [s EXCEPT !.out_of_seq = Append(@, [t |-> s.packets[i].arr, frame |-> s.packets[i].frame]),
              !.cls[i] = @ \cup {"OutOfSequence"}]

RecordWrongTimestamp(s, i) ==
    LET p == s.packets[i]
    IN  [s EXCEPT !.wrong_ts = Append(@, [t |-> p.arr, frame |-> p.frame]),
                  !.cls[i] = @ \cup {"WrongTimestamp"},
                  !.exp_ts = TsAdd(ExpectedTs(s, p), SamplesPerPacket),
                  !.exp_seq = SeqNext(p.seq)]

\* a stream that keeps the sample rate of its first recognized payload type
RetuneFirstOnly(s, p) ==
    IF SampleRate(p.pt) # 0 /\ s.rate = 0
    THEN [s EXCEPT !.rate = SampleRate(p.pt), !.start_ts = p.ts, !.seg_t0 = EndTime(s)]
    ELSE s

\* step 4: the sample rate follows the payload type; a change starts a new
\* segment where the timeline ends
Retune(s, p) ==
    IF SampleRate(p.pt) # 0 /\ SampleRate(p.pt) # s.rate
    THEN [s EXCEPT !.rate = SampleRate(p.pt), !.start_ts = p.ts, !.seg_t0 = EndTime(s)]
    ELSE s

\* the time the packet's timestamp implies, relative to the start timestamp
ImpliedTime(s, p) == s.seg_t0 + TsDiff(p.ts, s.start_ts) * SamplePeriod(s.rate)

\* step 3: the silence samples that fill the gap before packet p
GapSamples(s, p) ==
    IF s.timing_mode = Uninterrupted \/ ImpliedTime(s, p) <= EndTime(s)
    THEN 0
    ELSE (ImpliedTime(s, p) - EndTime(s)) \div SamplePeriod(s.rate)

FillGap(s, n) ==
    IF n > 0
    THEN [s EXCEPT !.timeline = AppendSamples(s, SilenceSamples(n), s.rate),
                   !.silence = Append(@, [t |-> EndTime(s), n |-> n])]
    ELSE s

\* a placement that counts a packet that fails to decode and puts nothing
\* in its place
PlaceSkipFailed(s, i) ==
    LET p == s.packets[i]
        s1 == Retune(s, p)
        good == p.ok /\ SampleRate(p.pt) # 0
        s2 == IF s1.rate = 0 \/ ~good THEN s1 ELSE FillGap(s1, GapSamples(s1, p))
        s3 == IF s1.rate = 0 \/ ~good
              THEN s2
              ELSE [s2 EXCEPT !.timeline = AppendSamples(s2, PacketSamples(p), s2.rate)]
    IN  [s3 EXCEPT !.n_accepted = IF good THEN @ + 1 ELSE @,
                   !.n_failed = IF good THEN @ ELSE @ + 1,
                   !.cls[i] = @ \cup {IF good THEN "Accept" ELSE "DecodeFailed"},
                   !.exp_seq = SeqNext(p.seq),
                   !.exp_ts = TsAdd(p.ts, SamplesPerPacket)]

\* steps 2 to 5 for an accepted packet: decode it and append it to the timeline
Place(s, i) ==
    LET p == s.packets[i]
        s1 == Retune(s, p)
        good == p.ok /\ SampleRate(p.pt) # 0
        s2 == IF s1.rate = 0 THEN s1 ELSE FillGap(s1, GapSamples(s1, p))
        s3 == IF s1.rate = 0
              THEN s2
              ELSE [s2 EXCEPT !.timeline =
                        AppendSamples(s2, IF good THEN PacketSamples(p)
                                                  ELSE SilenceSamples(SamplesPerPacket), s2.rate)]
    IN  [s3 EXCEPT !.n_accepted = IF good THEN @ + 1 ELSE @,
                   !.n_failed = IF good THEN @ ELSE @ + 1,
                   !.cls[i] = @ \cup {IF good THEN "Accept" ELSE "DecodeFailed"},
                   !.exp_seq = SeqNext(p.seq),
                   !.exp_ts = TsAdd(p.ts, SamplesPerPacket)]

\* JitterBuffer mode holds a packet that is ahead of the expected one
MustBuffer(s, p) ==
    /\ s.timing_mode = JitterBuffer
    /\ s.jitter_buffer_size > 0
    /\ wrap16(p.seq - s.exp_seq) > 0

RecordJitterDrop(s, i) ==
    [s EXCEPT !.jitter_drop = Append(@, [t |-> s.packets[i].arr, frame |-> s.packets[i].frame]),
              !.cls[i] = @ \cup {"JitterDrop"}]

\* admission to the jitter buffer: a full buffer evicts its oldest packet
Admit(s, i) ==
    IF Len(s.jbuf) >= s.jitter_buffer_size
    THEN [RecordJitterDrop(s, Head(s.jbuf)) EXCEPT !.jbuf = Append(Tail(s.jbuf), i)]
    ELSE [s EXCEPT !.jbuf = Append(@, i)]

RemoveAt(q, k) == [j \in 1..(Len(q) - 1) |-> IF j < k THEN q[j] ELSE q[j + 1]]

\* how far the k-th buffered packet is ahead of the expected sequence number
Ahead(s, k) == wrap16(s.packets[s.jbuf[k]].seq - s.exp_seq)

\* the buffered packets the expected sequence number has reached
Ready(s) == {k \in 1..Len(s.jbuf) : Ahead(s, k) <= 0}

\* the next packet of the pass
DecodePacket(s) ==
    LET i == s.order[s.cur]
        p == s.packets[i]
        s0 == [s EXCEPT !.cur = @ + 1]
        s1 == IF s.started
              THEN s0
              ELSE [s0 EXCEPT !.started = TRUE, !.exp_seq = p.seq, !.exp_ts = p.ts,
                              !.start_ts = p.ts, !.seg_t0 = EndTime(s)]
        d == classify(s1, p)
    IN  CASE d = "OutOfSequence" -> RecordOutOfSequence(s1, i)
          [] d = "WrongTimestamp" -> RecordWrongTimestamp(s1, i)
          [] d = "Accept" /\ MustBuffer(s1, p) -> Admit(s1, i)
          [] OTHER -> Place(s1, i)

\* a buffered packet the expected sequence number has reached leaves the buffer
DecodeDrain(s) ==
    LET k == CHOOSE k \in Ready(s) : \A j \in Ready(s) : k <= j
        i == s.jbuf[k]
        s1 == [s EXCEPT !.jbuf = RemoveAt(@, k)]
    IN  IF Ahead(s, k) = 0 THEN Place(s1, i) ELSE RecordOutOfSequence(s1, i)

\* the end of the packets: the buffer commits what it holds in output order
DecodeFlush(s) ==
    LET ks == 1..Len(s.jbuf)
        k == CHOOSE k \in ks : \A j \in ks :
                 Ahead(s, k) < Ahead(s, j) \/ (Ahead(s, k) = Ahead(s, j) /\ k <= j)
        i == s.jbuf[k]
    IN  Place([s EXCEPT !.jbuf = RemoveAt(@, k)], i)

EndPass(s) == [s EXCEPT !.active = FALSE, !.decoded = TRUE]

CanDrain(s) == s.active /\ Ready(s) # {}

CanDecodePacket(s) == s.active /\ Ready(s) = {} /\ s.cur <= Len(s.order)

CanFlush(s) == s.active /\ Ready(s) = {} /\ s.cur > Len(s.order) /\ s.jbuf # <<>>

CanEndPass(s) == s.active /\ s.cur > Len(s.order) /\ s.jbuf = <<>>

PassStep(s) ==
    CASE CanDrain(s) -> DecodeDrain(s)
      [] CanDecodePacket(s) -> DecodePacket(s)
      [] CanFlush(s) -> DecodeFlush(s)
      [] OTHER -> EndPass(s)

RECURSIVE RunPass(_)
RunPass(s) == IF s.active THEN RunPass(PassStep(s)) ELSE s

\* decode() as a whole
decode(s) == RunPass(BeginPass(s))

(***************************************************************************)
(* RtpPlayerDialog                                                         *)
(***************************************************************************)
NullStream == [null |-> TRUE]

\* the rtpstream_info_t values handed to addRtpStream: of a capture of two
\* streams that start together, of a capture of two streams the first of
\* which starts earlier, or of a capture of one stream that starts after
\* the capture does
RtpStreamInfos ==
    {NullStream}
        \cup (CASE feed = "mixed" ->
                     {[key |-> K1, start_rel_time |-> 0],
                      [key |-> K2, start_rel_time |-> 0]}
                [] feed = "playback" ->
                     {[key |-> K1, start_rel_time |-> 0],
                      [key |-> K2, start_rel_time |-> MaxStartTime]}
                [] OTHER -> {[key |-> K1, start_rel_time |-> MaxStartTime]})

Min(a, b) == IF a < b THEN a ELSE b

\* a reset loop that starts at the second row
ResetRowsSkipFirst(strs, t) ==
    [r \in DOMAIN strs |-> IF r = 1 THEN strs[r] ELSE reset(strs[r], t)]

\* a reset loop that stops before the last row
ResetRowsSkipLast(strs, t) ==
    [r \in DOMAIN strs |-> IF r = Len(strs) THEN strs[r] ELSE reset(strs[r], t)]

\* a rescan without its reset loop
ResetRowsNone(strs, t) == strs

\* the rows rescanPackets' first loop leaves: every stream reset
ResetRows(strs, t) == [r \in DOMAIN strs |-> reset(strs[r], t)]

\* a switch whose JitterBuffer and RtpTimestamp cases are exchanged
TimingModeSwapped(index) ==
    IF index = RtpTimestamp THEN JitterBuffer
    ELSE IF index = Uninterrupted THEN Uninterrupted
    ELSE RtpTimestamp

\* a switch without the Uninterrupted case
TimingModeNoUninterrupted(index) ==
    IF index = RtpTimestamp THEN RtpTimestamp ELSE JitterBuffer

\* a switch without the RtpTimestamp case
TimingModeNoRtpTimestamp(index) ==
    IF index = Uninterrupted THEN Uninterrupted ELSE JitterBuffer

\* the timing mode rescanPackets' switch picks for a combo box index
TimingModeOf(index) ==
    IF index = RtpTimestamp THEN RtpTimestamp
    ELSE IF index = Uninterrupted THEN Uninterrupted
    ELSE JitterBuffer

\* a depth one more than the control shows
JitterSizePlusOne(value) == value + 1

\* a depth that is never zero
JitterSizeAtLeastOne(value) == IF value = 0 THEN 1 ELSE value

\* (int) ui->jitterSpinBox->value()
JitterSizeOf(value) == value

\* a rescan that configures a stream only before its first decode()
ConfigureRowOnce(s) ==
    IF s.decoded
    THEN BeginPass(s)
    ELSE BeginPass(setTimingMode(setJitterBufferSize(s, JitterSizeOf(jitterSpinBox)),
                                 TimingModeOf(timingComboBox)))

\* a row's stream configured from the controls, its decode() begun
ConfigureRow(s) ==
    BeginPass(setTimingMode(setJitterBufferSize(s, JitterSizeOf(jitterSpinBox)),
                            TimingModeOf(timingComboBox)))

\* a loop without its return: every row whose stream matches takes the packet
RECURSIVE addPacketToAll(_, _, _, _)
addPacketToAll(strs, r, p, frame) ==
    IF r > Len(strs)
    THEN strs
    ELSE IF isMatch(strs[r], p.key)
         THEN addPacketToAll([strs EXCEPT ![r] = addRtpPacket(@, p, frame)], r + 1, p, frame)
         ELSE addPacketToAll(strs, r + 1, p, frame)

\* addPacket: the first row whose stream matches takes the packet
RECURSIVE addPacketFrom(_, _, _, _)
addPacketFrom(strs, r, p, frame) ==
    IF r > Len(strs)
    THEN strs
    ELSE IF isMatch(strs[r], p.key)
         THEN [strs EXCEPT ![r] = addRtpPacket(@, p, frame)]
         ELSE addPacketFrom(strs, r + 1, p, frame)

addPacket(strs, p, frame) == addPacketFrom(strs, 1, p, frame)

\* the packets the capture file may hold next
Example == [i \in 1..5 |-> Pkt(K1, <<3, 4, 6, 5, 7>>[i], 0, PT8k, TRUE, 2, 1)]

\* a capture of two streams whose playback is followed: the first stream's
\* packets arrive out of order
Playback ==
    <<Pkt(K1, 0, 0, PT8k, TRUE, 2, 1), Pkt(K1, 2, 0, PT8k, TRUE, 2, 1),
      Pkt(K1, 1, 0, PT8k, TRUE, 2, 1), Pkt(K2, 0, 0, PT8k, TRUE, 2, 1)>>

\* the values of the jitter buffer depth control: one deeper where the
\* capture is made to fill the buffer, the two extremes where two streams
\* are told apart
Depths ==
    IF feed = "jitter" THEN 0..(MaxDepth + 1)
    ELSE IF feed = "mixed" THEN {0, MaxDepth}
    ELSE 0..MaxDepth

\* ui->timingComboBox->currentIndex() when no item is current
NoIndex == 0 - 1

\* the values of the timing mode control's index
ComboIndices == IF feed \in {"mixed", "playback"} THEN TimingModes \cup {NoIndex} ELSE TimingModes

\* the time a capture starts at, in ticks, on the time-of-day axis
AbsStart == 8

\* the rows the mouse may find current (0: no current item)
HoverItems == IF feed = "timestamp" THEN 0..MaxStreams ELSE {0}

\* the time axis under the mouse: relative, or time of day as well
HoverAxes == IF feed = "timestamp" THEN BOOLEAN ELSE {TRUE}

\* the times the mouse may point at on an axis that is relative or not:
\* before the first packet, among the packets, after the last
HoverTimes(relative) ==
    {t + (IF relative THEN 0 ELSE AbsStart) :
        t \in IF feed = "timestamp" THEN {0, 2, MaxPackets + 1} ELSE {2}}

\* nearestPacket(timestamp, relative): the frame number of the stored packet
\* whose time is nearest, 0 without packets
nearestPacket(s, t, relative) ==
    IF s.packets = <<>> THEN 0
    ELSE LET time(i) == s.packets[i].arr + (IF relative THEN 0 ELSE AbsStart)
             best == CHOOSE i \in 1..Len(s.packets) :
                         \A j \in 1..Len(s.packets) :
                             \/ Abs(time(i) - t) < Abs(time(j) - t)
                             \/ Abs(time(i) - t) = Abs(time(j) - t) /\ i <= j
         IN  s.packets[best].frame

\* a getHoveredPacket that hands the state of the time-of-day box on as it is
getHoveredPacketTod(strs, ti, ts, relative) ==
    IF ti = 0 THEN 0 ELSE nearestPacket(strs[ti], ts, ~relative)

\* getHoveredPacket with the current item ti (0: none), the time ts under the
\* mouse and the time-of-day box unchecked (relative) or checked
getHoveredPacket(strs, ti, ts, relative) ==
    IF ti = 0 THEN 0 ELSE nearestPacket(strs[ti], ts, relative)

NoHint == [item |-> 0, ts |-> 0, relative |-> TRUE, packet_num |-> 0]

\* the rows a click on the play button may set playing: any of them where
\* playback is followed, at least one elsewhere
Starts ==
    IF feed = "playback" THEN SUBSET (1..MaxStreams) ELSE SUBSET (1..MaxStreams) \ {{}}

\* the seconds of audio a playing stream may report as processed
PlaySecs == IF feed = "playback" THEN 0..MaxSecs ELSE {0}

Max(a, b) == IF a > b THEN a ELSE b

\* cur_play_pos_->setVisible(v)
setVisible(cursor, v) == [cursor EXCEPT !.visible = v]

\* stopPlaying of every row's stream
StopAll(strs) == [r \in DOMAIN strs |-> [strs[r] EXCEPT !.output_state = "Idle"]]

\* an updateWidgets that leaves the play button enabled
updateWidgetsPlayOn(strs) ==
    LET playing == \E r \in DOMAIN strs : strs[r].output_state # "Idle"
    IN  [play |-> TRUE, stop |-> playing, timing |-> ~playing]

\* an updateWidgets that leaves the timing controls enabled
updateWidgetsTimingOn(strs) ==
    LET playing == \E r \in DOMAIN strs : strs[r].output_state # "Idle"
    IN  [play |-> ~playing, stop |-> playing, timing |-> TRUE]

\* the enable flags updateWidgets computes: play stands for the play button
\* and the output device box, timing for the jitter, timing mode and
\* time-of-day controls; stop is also what it makes the cursor's visibility.
\* (The hint it rewrites last is a function of the mouse position, which the
\* model draws in updateHintLabel.)
updateWidgets(strs) ==
    LET playing == \E r \in DOMAIN strs : strs[r].output_state # "Idle"
    IN  [play |-> ~playing, stop |-> playing, timing |-> ~playing]

NextPackets ==
    CASE feed = "mixed" -> IF tapped < MaxPackets THEN MixedPool ELSE {}
      [] feed = "single" -> IF tapped < MaxPackets THEN StreamPool ELSE {}
      [] feed = "jitter" -> IF tapped < MaxPackets + 1 THEN JitterPool ELSE {}
      [] feed = "timestamp" -> IF tapped < MaxPackets THEN TimestampPool ELSE {}
      [] feed = "payload" -> IF tapped < MaxPackets THEN PayloadPool ELSE {}
      [] feed = "playback" -> IF tapped < Len(Playback) THEN {Playback[tapped + 1]} ELSE {}
      [] OTHER -> IF tapped < Len(Example) THEN {Example[tapped + 1]} ELSE {}

InitDialog ==
    /\ streams = <<>>
    /\ start_rel_time_ = 0
    /\ jitterSpinBox \in Depths
    /\ timingComboBox \in ComboIndices
    /\ pc = "idle"
    /\ tapped = 0
    /\ retapped = FALSE
    /\ row = 0
    /\ snap = <<>>
    /\ enabled = [play |-> TRUE, stop |-> TRUE, timing |-> TRUE]
    /\ hint = NoHint
    /\ cur_play_pos_ = [key |-> 0, visible |-> FALSE]
    /\ reported = 0

\* an addRtpStream that makes a row without looking for the stream
addRtpStreamAlways(rtpstream) ==
    /\ pc = "idle"
    /\ IF rtpstream = NullStream
       THEN UNCHANGED <<streams, start_rel_time_>>
       ELSE LET tli_count == Len(streams)
            IN  /\ tli_count < MaxStreams
                /\ streams' = Append(streams, NewStream(rtpstream))
                /\ start_rel_time_' = IF tli_count < 2
                                      THEN rtpstream.start_rel_time
                                      ELSE Min(start_rel_time_, rtpstream.start_rel_time)
    /\ UNCHANGED <<feed, jitterSpinBox, timingComboBox, pc, tapped, retapped, row, snap, enabled, hint, cur_play_pos_, reported>>

\* addRtpStream; a stream of the capture has one start time, so that an
\* rtpstream_info of a stream already in the list carries the start time
\* the stream was made with
addRtpStream(rtpstream) ==
    /\ pc = "idle"
    /\ IF rtpstream = NullStream
       THEN UNCHANGED <<streams, start_rel_time_>>
       ELSE LET tli_count == Len(streams)
                found == \E r \in 1..tli_count : isMatch(streams[r], rtpstream.key)
            IN  /\ found \/ tli_count < MaxStreams
                /\ \A r \in 1..tli_count :
                       isMatch(streams[r], rtpstream.key)
                           => streams[r].start_rel_time = rtpstream.start_rel_time
                /\ streams' = IF found THEN streams ELSE Append(streams, NewStream(rtpstream))
                /\ start_rel_time_' = IF tli_count < 2
                                      THEN rtpstream.start_rel_time
                                      ELSE Min(start_rel_time_, rtpstream.start_rel_time)
    /\ UNCHANGED <<feed, jitterSpinBox, timingComboBox, pc, tapped, retapped, row, snap, enabled, hint, cur_play_pos_, reported>>

\* a frame that reaches the tap listener with no RTP info
NullInfo == [null |-> TRUE]

\* what the tap listener is called with next: a packet of the capture, or,
\* where two streams are told apart, a frame without RTP info
TapInputs ==
    NextPackets \cup (IF feed = "mixed" /\ NextPackets # {} THEN {NullInfo} ELSE {})

TAP_PACKET_DONT_REDRAW == "TAP_PACKET_DONT_REDRAW"

\* a tapPacket that does not look at the RTP version
tapPacketAnyVersion(strs, p, frame) ==
    IF p = NullInfo THEN [streams |-> strs, status |-> TAP_PACKET_DONT_REDRAW]
    ELSE IF p.passed_dfilter = 0 THEN [streams |-> strs, status |-> TAP_PACKET_DONT_REDRAW]
    ELSE [streams |-> addPacket(strs, p, frame), status |-> TAP_PACKET_DONT_REDRAW]

\* tapPacket called with the dialog: the rows it leaves and the status it
\* returns
tapPacketOf(strs, p, frame) ==
    IF p = NullInfo THEN [streams |-> strs, status |-> TAP_PACKET_DONT_REDRAW]
    ELSE IF p.passed_dfilter = 0 THEN [streams |-> strs, status |-> TAP_PACKET_DONT_REDRAW]
    ELSE IF p.info_version # 2 THEN [streams |-> strs, status |-> TAP_PACKET_DONT_REDRAW]
    ELSE [streams |-> addPacket(strs, p, frame), status |-> TAP_PACKET_DONT_REDRAW]

\* retapPackets up to cap_file_.retapPackets(): the tap listener is registered
retapPackets ==
    /\ pc = "idle"
    /\ ~retapped
    /\ retapped' = TRUE
    /\ pc' = "tap"
    /\ UNCHANGED <<feed, streams, start_rel_time_, jitterSpinBox, timingComboBox, tapped, row, snap, enabled, hint, cur_play_pos_, reported>>

\* retapPackets when register_tap_listener fails
retapPacketsFailed ==
    /\ pc = "idle"
    /\ ~retapped
    /\ retapped' = TRUE
    /\ UNCHANGED <<feed, streams, start_rel_time_, jitterSpinBox, timingComboBox, pc, tapped, row, snap, enabled, hint, cur_play_pos_, reported>>

\* a tap listener that is not removed before the rescan
tapPacketListening(p) ==
    /\ pc \in {"tap", "scan"}
    /\ p \in NextPackets
    /\ tapped' = tapped + 1
    /\ streams' = IF p.passed_dfilter = 0 THEN streams
                  ELSE IF p.info_version # 2 THEN streams
                  ELSE addPacket(streams, p, tapped + 1)
    /\ UNCHANGED <<feed, start_rel_time_, jitterSpinBox, timingComboBox, pc, retapped, row, snap, enabled, hint, cur_play_pos_, reported>>

\* tapPacket: one packet of the capture file reaches the tap listener
tapPacket(p) ==
    /\ pc = "tap"
    /\ p \in TapInputs
    /\ tapped' = tapped + 1
    /\ streams' = tapPacketOf(streams, p, tapped + 1).streams
    /\ UNCHANGED <<feed, start_rel_time_, jitterSpinBox, timingComboBox, pc, retapped, row, snap, enabled, hint, cur_play_pos_, reported>>

\* rescanPackets up to its second loop: every stream is reset
rescanPackets(keep) ==
    /\ snap' = IF keep THEN streams ELSE <<>>
    /\ streams' = ResetRows(streams, start_rel_time_)
    /\ row' = 1
    /\ pc' = "scan"

\* retapPackets after cap_file_.retapPackets(): the listener is removed, the
\* packets are rescanned
retapDone ==
    /\ pc = "tap"
    /\ rescanPackets(FALSE)
    /\ UNCHANGED <<feed, start_rel_time_, jitterSpinBox, timingComboBox, tapped, retapped, enabled, hint, cur_play_pos_, reported>>

\* The handlers of the controls. The constructor queues retapPackets before
\* the dialog handles any input, and a disabled control sends no signal.
on_jitterSpinBox_valueChanged(v) ==
    /\ pc = "idle"
    /\ retapped
    /\ enabled.timing
    /\ v # jitterSpinBox
    /\ jitterSpinBox' = v
    /\ rescanPackets(FALSE)
    /\ UNCHANGED <<feed, start_rel_time_, timingComboBox, tapped, retapped, enabled, hint, cur_play_pos_, reported>>

on_timingComboBox_currentIndexChanged(i) ==
    /\ pc = "idle"
    /\ retapped
    /\ enabled.timing
    /\ i # timingComboBox
    /\ timingComboBox' = i
    /\ rescanPackets(FALSE)
    /\ UNCHANGED <<feed, start_rel_time_, jitterSpinBox, tapped, retapped, enabled, hint, cur_play_pos_, reported>>

on_outputDeviceComboBox_currentIndexChanged ==
    /\ pc = "idle"
    /\ retapped
    /\ enabled.play
    /\ rescanPackets(TRUE)
    /\ UNCHANGED <<feed, start_rel_time_, jitterSpinBox, timingComboBox, tapped, retapped, enabled, hint, cur_play_pos_, reported>>

on_todCheckBox_toggled ==
    /\ pc = "idle"
    /\ retapped
    /\ enabled.timing
    /\ rescanPackets(TRUE)
    /\ UNCHANGED <<feed, start_rel_time_, jitterSpinBox, timingComboBox, tapped, retapped, enabled, hint, cur_play_pos_, reported>>

\* rescanPackets' second loop
Scanning == pc = "scan" /\ row <= Len(streams)

\* streams that share one timeline: what the row scanned writes, every row has
StepRowShared(t) ==
    /\ streams' = [r \in DOMAIN streams |->
                       IF r = row THEN t ELSE [streams[r] EXCEPT !.timeline = t.timeline]]
    /\ UNCHANGED <<feed, start_rel_time_, jitterSpinBox, timingComboBox, pc, tapped, retapped, row, snap, enabled, hint, cur_play_pos_, reported>>

\* the stream of the row scanned becomes t, and nothing else changes
StepRow(t) ==
    /\ streams' = [streams EXCEPT ![row] = t]
    /\ UNCHANGED <<feed, start_rel_time_, jitterSpinBox, timingComboBox, pc, tapped, retapped, row, snap, enabled, hint, cur_play_pos_, reported>>

scanConfigure ==
    /\ Scanning
    /\ ~streams[row].active
    /\ StepRow(ConfigureRow(streams[row]))

decodePacket ==
    /\ Scanning
    /\ CanDecodePacket(streams[row])
    /\ StepRow(DecodePacket(streams[row]))

decodeDrain ==
    /\ Scanning
    /\ CanDrain(streams[row])
    /\ StepRow(DecodeDrain(streams[row]))

decodeFlush ==
    /\ Scanning
    /\ CanFlush(streams[row])
    /\ StepRow(DecodeFlush(streams[row]))

\* decode() returns; the row's graphs are plotted
decodeDone ==
    /\ Scanning
    /\ CanEndPass(streams[row])
    /\ streams' = [streams EXCEPT ![row] = EndPass(@)]
    /\ row' = row + 1
    /\ UNCHANGED <<feed, start_rel_time_, jitterSpinBox, timingComboBox, pc, tapped, retapped, snap, enabled, hint, cur_play_pos_, reported>>

\* the second loop is over
rescanDone ==
    /\ pc = "scan"
    /\ row > Len(streams)
    /\ pc' = "done"
    /\ UNCHANGED <<feed, streams, start_rel_time_, jitterSpinBox, timingComboBox, tapped, retapped, row, snap, enabled, hint, cur_play_pos_, reported>>

\* updateWidgets(); rescanPackets returns
rescanReturn ==
    /\ pc = "done"
    /\ pc' = "idle"
    /\ snap' = <<>>
    /\ row' = 0
    /\ enabled' = updateWidgets(streams)
    /\ cur_play_pos_' = setVisible(cur_play_pos_, updateWidgets(streams).stop)
    /\ UNCHANGED <<feed, streams, start_rel_time_, jitterSpinBox, timingComboBox, tapped, retapped, hint, reported>>

\* The play button is clicked: on_playButton_clicked puts the cursor at the
\* start time and shows it, then startPlaying of every stream; the streams
\* of started begin to play and each signals startedPlaying, which runs
\* updateWidgets.
on_playButton_clicked(started) ==
    /\ pc = "idle"
    /\ retapped
    /\ enabled.play
    /\ started \in Starts
    /\ started \subseteq DOMAIN streams
    /\ streams' = [r \in DOMAIN streams |->
                       IF r \in started THEN [streams[r] EXCEPT !.output_state = "Active"]
                       ELSE streams[r]]
    /\ enabled' = IF started = {} THEN enabled ELSE updateWidgets(streams')
    /\ cur_play_pos_' = [key |-> start_rel_time_, visible |-> TRUE]
    /\ reported' = start_rel_time_
    /\ UNCHANGED <<feed, start_rel_time_, jitterSpinBox, timingComboBox, pc, tapped, retapped, row, snap, hint>>

\* a setPlayPosition that moves the cursor wherever it is
setPlayPositionAlways(r, secs) ==
    /\ pc = "idle"
    /\ r \in DOMAIN streams
    /\ streams[r].output_state # "Idle"
    /\ secs \in PlaySecs
    /\ cur_play_pos_' = [cur_play_pos_ EXCEPT !.key = secs + start_rel_time_]
    /\ reported' = Max(reported, secs + start_rel_time_)
    /\ UNCHANGED <<feed, streams, start_rel_time_, jitterSpinBox, timingComboBox, pc, tapped, retapped, row, snap, enabled, hint>>

\* a playing stream signals processedSecs(secs): setPlayPosition
setPlayPosition(r, secs) ==
    /\ pc = "idle"
    /\ r \in DOMAIN streams
    /\ streams[r].output_state # "Idle"
    /\ secs \in PlaySecs
    /\ cur_play_pos_' = IF secs + start_rel_time_ > cur_play_pos_.key
                        THEN [cur_play_pos_ EXCEPT !.key = secs + start_rel_time_]
                        ELSE cur_play_pos_
    /\ reported' = Max(reported, secs + start_rel_time_)
    /\ UNCHANGED <<feed, streams, start_rel_time_, jitterSpinBox, timingComboBox, pc, tapped, retapped, row, snap, enabled, hint>>

\* The stop button is clicked: on_stopButton_clicked hides the cursor, then
\* stopPlaying of every stream; a stream that played signals
\* finishedPlaying, which runs updateWidgets.
on_stopButton_clicked ==
    /\ pc = "idle"
    /\ retapped
    /\ enabled.stop
    /\ streams' = StopAll(streams)
    /\ enabled' = IF streams' = streams THEN enabled ELSE updateWidgets(streams')
    /\ cur_play_pos_' = setVisible(cur_play_pos_, FALSE)
    /\ UNCHANGED <<feed, start_rel_time_, jitterSpinBox, timingComboBox, pc, tapped, retapped, row, snap, hint, reported>>

\* a mouse button is pressed over the plot: graphClicked runs updateWidgets
graphClicked ==
    /\ pc = "idle"
    /\ retapped
    /\ enabled' = updateWidgets(streams)
    /\ cur_play_pos_' = setVisible(cur_play_pos_, updateWidgets(streams).stop)
    /\ UNCHANGED <<feed, streams, start_rel_time_, jitterSpinBox, timingComboBox, pc, tapped, retapped, row, snap, hint, reported>>

\* an accept that closes the dialog without stopping the streams
acceptNoStop ==
    /\ pc = "idle"
    /\ retapped
    /\ pc' = "closed"
    /\ UNCHANGED <<feed, streams, start_rel_time_, jitterSpinBox, timingComboBox, tapped, retapped, row, snap, enabled, hint, cur_play_pos_, reported>>

\* accept: stopPlaying of every stream, then the dialog closes; a stream that
\* played signals finishedPlaying, which runs updateWidgets
accept ==
    /\ pc = "idle"
    /\ retapped
    /\ streams' = StopAll(streams)
    /\ enabled' = IF streams' = streams THEN enabled ELSE updateWidgets(streams')
    /\ cur_play_pos_' = IF streams' = streams THEN cur_play_pos_
                        ELSE setVisible(cur_play_pos_, updateWidgets(streams').stop)
    /\ pc' = "closed"
    /\ UNCHANGED <<feed, start_rel_time_, jitterSpinBox, timingComboBox, tapped, retapped, row, snap, hint, reported>>

\* reject calls accept
reject == accept

\* the stream of row r stops playing and signals finishedPlaying, which runs
\* updateWidgets
finishedPlaying(r) ==
    /\ pc = "idle"
    /\ r \in DOMAIN streams
    /\ streams[r].output_state # "Idle"
    /\ streams' = [streams EXCEPT ![r].output_state = "Idle"]
    /\ enabled' = updateWidgets(streams')
    /\ cur_play_pos_' = setVisible(cur_play_pos_, updateWidgets(streams').stop)
    /\ UNCHANGED <<feed, start_rel_time_, jitterSpinBox, timingComboBox, pc, tapped, retapped, row, snap, hint, reported>>

\* the mouse moves over the plot: updateHintLabel calls getHoveredPacket
updateHintLabel(ti, ts, relative) ==
    /\ pc = "idle"
    /\ retapped
    /\ ti \in HoverItems \cap ({0} \cup DOMAIN streams)
    /\ relative \in HoverAxes
    /\ ts \in HoverTimes(relative)
    /\ hint' = [item |-> ti, ts |-> ts, relative |-> relative,
                packet_num |-> getHoveredPacket(streams, ti, ts, relative)]
    /\ pc' = "hint"
    /\ UNCHANGED <<feed, streams, start_rel_time_, jitterSpinBox, timingComboBox, tapped, retapped, row, snap, enabled, cur_play_pos_, reported>>

\* the hint label is set; updateHintLabel returns
updateHintLabelDone ==
    /\ pc = "hint"
    /\ pc' = "idle"
    /\ hint' = NoHint
    /\ UNCHANGED <<feed, streams, start_rel_time_, jitterSpinBox, timingComboBox, tapped, retapped, row, snap, enabled, cur_play_pos_, reported>>

Next ==
    \/ \E rs \in RtpStreamInfos : addRtpStream(rs)
    \/ retapPackets
    \/ retapPacketsFailed
    \/ \E p \in TapInputs : tapPacket(p)
    \/ retapDone
    \/ \E v \in Depths : on_jitterSpinBox_valueChanged(v)
    \/ \E i \in ComboIndices : on_timingComboBox_currentIndexChanged(i)
    \/ on_outputDeviceComboBox_currentIndexChanged
    \/ on_todCheckBox_toggled
    \/ scanConfigure
    \/ decodePacket
    \/ decodeDrain
    \/ decodeFlush
    \/ decodeDone
    \/ rescanDone
    \/ rescanReturn
    \/ \E started \in SUBSET (1..MaxStreams) : on_playButton_clicked(started)
    \/ \E r \in 1..MaxStreams : finishedPlaying(r)
    \/ \E r \in 1..MaxStreams, secs \in 0..MaxSecs : setPlayPosition(r, secs)
    \/ on_stopButton_clicked
    \/ graphClicked
    \/ accept
    \/ reject
    \/ \E ti \in 0..MaxStreams, relative \in BOOLEAN :
           \E ts \in HoverTimes(relative) : updateHintLabel(ti, ts, relative)
    \/ updateHintLabelDone

\* a capture with two streams and packets the tap ignores
Init == feed = "mixed" /\ InitDialog

Spec == Init /\ [][Next]_vars

\* a capture with one stream
InitDecode == feed = "single" /\ InitDialog

SpecDecode == InitDecode /\ [][Next]_vars

\* a capture of one stream whose packets run ahead of the expected one
InitJitter == feed = "jitter" /\ InitDialog

SpecJitter == InitJitter /\ [][Next]_vars

\* a capture of one stream with timestamps that coincide or overlap
InitTimestamp == feed = "timestamp" /\ InitDialog

SpecTimestamp == InitTimestamp /\ [][Next]_vars

\* a capture of one stream that changes its payload type
InitPayload == feed = "payload" /\ InitDialog

SpecPayload == InitPayload /\ [][Next]_vars

\* a capture of two streams whose playback is followed
InitPlayback == feed = "playback" /\ InitDialog

SpecPlayback == InitPlayback /\ [][Next]_vars

\* a capture that holds the design's example (sequence numbers 1, 2, 4, 3, 5)
\* or the first packets of it
InitExample == feed = "example" /\ InitDialog

SpecExample == InitExample /\ [][Next]_vars

(***************************************************************************)
(* Properties of the rescan and of the streams it decodes.                 *)
(***************************************************************************)
Rows == DOMAIN streams

\* row r's stream holds the result of a decode() of the packets it stores
Decoded(r) ==
    /\ streams[r].decoded
    /\ ~streams[r].active
    /\ pc \in {"idle", "done"} \/ (pc = "scan" /\ r < row)

\* what decode() produces
Outputs(s) ==
    [timeline |-> s.timeline, out_of_seq |-> s.out_of_seq, jitter_drop |-> s.jitter_drop,
     wrong_ts |-> s.wrong_ts, silence |-> s.silence,
     n_accepted |-> s.n_accepted, n_failed |-> s.n_failed, cls |-> s.cls]

SameConfig(s, t) ==
    /\ s.packets = t.packets
    /\ s.timing_mode = t.timing_mode
    /\ s.jitter_buffer_size = t.jitter_buffer_size
    /\ s.start_time = t.start_time

\* the packets of s the pass put in category c
InCategory(s, c) == {i \in 1..Len(s.packets) : c \in s.cls[i]}

\* the frame numbers of the packets whose samples the timeline holds, in
\* timeline order
RECURSIVE FramesOf(_)
FramesOf(tl) ==
    IF tl = <<>> THEN <<>>
    ELSE IF Head(tl).v.f # 0 /\ Head(tl).v.k = 1
         THEN <<Head(tl).v.f>> \o FramesOf(Tail(tl))
         ELSE FramesOf(Tail(tl))

\* C1: a rescan (reset, then decode) that repeats the previous one, with the
\* same packets, timing mode, jitter buffer depth and start time, leaves every
\* stream with the timeline, the event lists and the counts it had.
C1_Idempotent ==
    (pc = "done" /\ snap # <<>>) =>
        \A r \in Rows :
            (r \in DOMAIN snap /\ snap[r].decoded /\ SameConfig(snap[r], streams[r]))
                => Outputs(streams[r]) = Outputs(snap[r])

C1_Witness ==
    /\ pc = "done"
    /\ snap # <<>>
    /\ \E r \in Rows :
        /\ snap[r].decoded
        /\ SameConfig(snap[r], streams[r])
        /\ streams[r].silence # <<>>
        /\ streams[r].out_of_seq # <<>>
        /\ Len(streams[r].timeline) > SamplesPerPacket

\* C2: after a decode() pass every stored packet is in exactly one category,
\* and the five counts add up to the number of packets stored; inserted
\* silence is no packet.
C2_Partition ==
    \A r \in Rows :
        Decoded(r) =>
            LET s == streams[r]
            IN  /\ \A i \in 1..Len(s.packets) :
                       Cardinality(s.cls[i]) = 1 /\ s.cls[i] \subseteq Categories
                /\ s.n_accepted = Cardinality(InCategory(s, "Accept"))
                /\ s.n_failed = Cardinality(InCategory(s, "DecodeFailed"))
                /\ Len(s.out_of_seq) = Cardinality(InCategory(s, "OutOfSequence"))
                /\ Len(s.wrong_ts) = Cardinality(InCategory(s, "WrongTimestamp"))
                /\ Len(s.jitter_drop) = Cardinality(InCategory(s, "JitterDrop"))
                /\ s.n_accepted + Len(s.out_of_seq) + Len(s.wrong_ts)
                       + Len(s.jitter_drop) + s.n_failed = Len(s.packets)

C2_Witness ==
    \E r \in Rows :
        /\ Decoded(r)
        /\ Len(streams[r].packets) = MaxPackets
        /\ streams[r].silence # <<>>
        /\ streams[r].jitter_drop # <<>>
        /\ streams[r].n_accepted > 0

\* C3: the times of a timeline start at the stream's start time and go up by
\* exactly one sample period from each sample to the next (so none repeats
\* and none is missing), in every timing mode; a gap is filled with samples
\* of value zero.
C3_EvenlySpaced ==
    \A r \in Rows :
        LET tl == streams[r].timeline
        IN  /\ tl # <<>> => tl[1].t = streams[r].start_time
            /\ \A i \in 1..(Len(tl) - 1) :
                   /\ tl[i + 1].t - tl[i].t = SamplePeriod(tl[i].rate)
                   /\ tl[i + 1].t > tl[i].t
            /\ \A e \in 1..Len(streams[r].silence) :
                   \E i \in 1..Len(tl) :
                       /\ tl[i].t = streams[r].silence[e].t
                       /\ \A j \in i..(i + streams[r].silence[e].n - 1) :
                              j <= Len(tl) /\ tl[j].v = Silence

C3_Witness ==
    \E r \in Rows :
        /\ Decoded(r)
        /\ streams[r].timing_mode = RtpTimestamp
        /\ streams[r].silence # <<>>
        /\ streams[r].n_accepted >= 2

\* a is an initial part of b
IsPrefix(a, b) == Len(a) <= Len(b) /\ SubSeq(b, 1, Len(a)) = a

\* a step of the decode() pass over the stream of the row being scanned
InPass == pc = "scan" /\ pc' = "scan" /\ row \in Rows /\ streams[row].active

\* packet i of s has a sequence number lower than that of every packet the
\* pass has accepted so far, and there is such a packet
LowerThanAccepted(s, i) ==
    /\ InCategory(s, "Accept") # {}
    /\ \A j \in InCategory(s, "Accept") :
           wrap16(s.packets[i].seq - s.packets[j].seq) < 0

C4_Step ==
    InPass =>
        LET s == streams[row]
            t == streams'[row]
        IN  /\ IsPrefix(s.timeline, t.timeline)
            /\ \A i \in 1..Len(s.packets) :
                   (s.cls[i] = {} /\ t.cls[i] # {} /\ LowerThanAccepted(s, i))
                       => /\ t.cls[i] = {"OutOfSequence"}
                          /\ t.timeline = s.timeline

\* C4: in every step of a decode() pass the timeline only grows at its end,
\* and a packet classified in the step whose sequence number is lower than
\* that of every packet accepted so far in the pass is OutOfSequence and
\* leaves the timeline as it was.
C4_LowerIsOutOfSequence == [][C4_Step]_vars

C4_Witness ==
    \E r \in Rows :
        /\ Decoded(r)
        /\ streams[r].timeline # <<>>
        /\ \E i \in InCategory(streams[r], "OutOfSequence") :
               /\ LowerThanAccepted(streams[r], i)
               /\ \E j \in InCategory(streams[r], "Accept") : j < i

\* The outcome the design's example names: one silence gap where the packet
\* of sequence number 3 was missing, that packet (the fourth to arrive)
\* OutOfSequence, the four others accepted in the order 1, 2, 4, 5.
ExampleOutcome(s) ==
    LET per == SamplePeriod(SampleRate(PT8k))
    IN  /\ s.cls = <<{"Accept"}, {"Accept"}, {"Accept"}, {"OutOfSequence"}, {"Accept"}>>
        /\ Len(s.out_of_seq) = 1
        /\ s.out_of_seq[1].frame = 4
        /\ s.silence = <<[t |-> s.start_time + 2 * SamplesPerPacket * per,
                          n |-> SamplesPerPacket]>>
        /\ FramesOf(s.timeline) = <<1, 2, 3, 5>>
        /\ Len(s.timeline) = 5 * SamplesPerPacket
        /\ \A k \in (2 * SamplesPerPacket + 1)..(3 * SamplesPerPacket) :
               s.timeline[k].v = Silence

\* the whole example has been tapped into s
HoldsExample(s) ==
    /\ Len(s.packets) = Len(Example)
    /\ \A i \in 1..Len(Example) :
           s.packets[i].seq = Example[i].seq /\ s.packets[i].ts = Example[i].ts

\* C5: with the packets of sequence numbers 1, 2, 4, 3, 5 arriving in that
\* order, a decode() in JitterBuffer mode with jitter buffer depth 0 inserts
\* exactly one silence gap, where packet 3 was missing, classifies packet 3
\* as OutOfSequence, and accepts packets 1, 2, 4 and 5.
C5_Example ==
    \A r \in Rows :
        (/\ Decoded(r)
         /\ HoldsExample(streams[r])
         /\ timingComboBox = JitterBuffer
         /\ jitterSpinBox = 0)
            => ExampleOutcome(streams[r])

C5_Witness ==
    \E r \in Rows :
        /\ Decoded(r)
        /\ HoldsExample(streams[r])
        /\ timingComboBox = JitterBuffer
        /\ jitterSpinBox = 0
        /\ streams[r].silence # <<>>

\* C5 as it is written: the same outcome whatever the timing mode and the
\* jitter buffer depth.
C5_AsWritten ==
    \A r \in Rows :
        (Decoded(r) /\ HoldsExample(streams[r])) => ExampleOutcome(streams[r])

\* s with every sequence number moved by half the 16-bit range and every
\* timestamp by half the 32-bit range
Shifted(s) ==
    [s EXCEPT !.packets =
        [i \in 1..Len(s.packets) |->
            [s.packets[i] EXCEPT !.seq = (@ + Two15) % Two16,
                                 !.ts = Ts((@.hi + Two15) % Two16, @.lo)]]]

\* the packets of s are decodable and follow one another, each one sequence
\* number and one packet of samples after the one before
InOrder(s) ==
    /\ s.packets # <<>>
    /\ \A i \in 1..Len(s.packets) : s.packets[i].ok /\ SampleRate(s.packets[i].pt) # 0
    /\ \A i \in 1..(Len(s.packets) - 1) :
           /\ s.packets[i + 1].seq = (s.packets[i].seq + 1) % Two16
           /\ TsDiff(s.packets[i + 1].ts, s.packets[i].ts) = SamplesPerPacket

\* the sequence number and the timestamp of s wrap between two packets
Wraps(s) ==
    \E i \in 1..(Len(s.packets) - 1) :
        /\ s.packets[i + 1].seq < s.packets[i].seq
        /\ s.packets[i + 1].ts.hi < s.packets[i].ts.hi

NoEvents(s) ==
    /\ s.out_of_seq = <<>>
    /\ s.wrong_ts = <<>>
    /\ s.jitter_drop = <<>>
    /\ s.silence = <<>>

\* C6: a decode() gives every stream the classification, the events and the
\* timeline it gives the same stream moved away from the wrap of the
\* sequence number and of the timestamp; a stream of in-order packets has
\* every packet accepted and no event, whether it wraps or not.
C6_Wraparound ==
    \A r \in Rows :
        Decoded(r) =>
            LET s == streams[r]
            IN  /\ Outputs(decode(reset(Shifted(s), s.start_time))) = Outputs(s)
                /\ InOrder(s) =>
                       /\ \A i \in 1..Len(s.packets) : s.cls[i] = {"Accept"}
                       /\ NoEvents(s)

C6_Witness ==
    \E r \in Rows :
        /\ Decoded(r)
        /\ InOrder(streams[r])
        /\ Wraps(streams[r])
        /\ ~Wraps(Shifted(streams[r]))
        /\ Len(streams[r].packets) = MaxPackets
        /\ streams[r].n_accepted = MaxPackets

\* s after a reset(): no timeline, no event, no count, nothing buffered
IsEmptied(s) ==
    /\ s.timeline = <<>>
    /\ NoEvents(s)
    /\ s.n_accepted = 0
    /\ s.n_failed = 0
    /\ s.jbuf = <<>>
    /\ \A i \in 1..Len(s.cls) : s.cls[i] = {}

C7_Step ==
    /\ (pc # "scan" /\ pc' = "scan") =>
           /\ DOMAIN streams' = Rows
           /\ \A r \in Rows :
                  streams'[r].packets = streams[r].packets /\ IsEmptied(streams'[r])
    /\ (InPass /\ ~streams'[row].active) =>
           /\ streams'[row].packets = streams[row].packets
           /\ \A i \in 1..Len(streams[row].packets) : streams'[row].cls[i] # {}

\* C7: the reset loop of a rescan leaves every stream with an empty timeline,
\* no event, zero counts and an empty jitter buffer, and with the packets it
\* had; the decode() that follows has classified every one of these packets
\* when it ends.
C7_ResetKeepsPackets == [][C7_Step]_vars

C7_Witness ==
    /\ pc = "scan"
    /\ row = 1
    /\ snap # <<>>
    /\ \E r \in Rows :
        /\ snap[r].timeline # <<>>
        /\ snap[r].out_of_seq # <<>>
        /\ ~streams[r].active
        /\ streams[r].packets = snap[r].packets
        /\ IsEmptied(streams[r])

\* the sample values of the packets of s from the i-th on whose category
\* is among cats, in arrival order: a packet's own samples, or the silence
\* put in its place when it failed to decode
RECURSIVE SamplesFrom(_, _, _)
SamplesFrom(s, i, cats) ==
    IF i > Len(s.packets) THEN <<>>
    ELSE (IF s.cls[i] \cap cats = {} THEN <<>>
          ELSE IF "Accept" \in s.cls[i] THEN PacketSamples(s.packets[i])
          ELSE SilenceSamples(SamplesPerPacket))
         \o SamplesFrom(s, i + 1, cats)

Values(tl) == [i \in 1..Len(tl) |-> tl[i].v]

\* the timeline of s is the given packets' samples end to end, and no
\* silence was inserted
BackToBack(s, cats) ==
    /\ s.silence = <<>>
    /\ Values(s.timeline) = SamplesFrom(s, 1, cats)

\* every packet of s has the sample rate of packet i
SingleRate(s, i) ==
    \A j \in 1..Len(s.packets) : SampleRate(s.packets[j].pt) = SampleRate(s.packets[i].pt)

\* the time the timestamp of packet i of s gives it: the start time plus its
\* distance in samples from the first packet of the pass
PositionOf(s, i) ==
    s.start_time
        + TsDiff(s.packets[i].ts, s.packets[s.order[1]].ts)
              * SamplePeriod(SampleRate(s.packets[i].pt))

\* tl is base followed by samples of the given values, one period apart
\* from time t0 on
Extends(tl, base, t0, per, vals) ==
    /\ Len(tl) = Len(base) + Len(vals)
    /\ IsPrefix(base, tl)
    /\ \A k \in 1..Len(vals) :
           /\ tl[Len(base) + k].t = t0 + (k - 1) * per
           /\ tl[Len(base) + k].v = vals[k]

C8_GapStep ==
    (InPass /\ timingComboBox \in {JitterBuffer, RtpTimestamp}) =>
        LET s == streams[row]
            t == streams'[row]
            end == IF s.timeline = <<>> THEN s.start_time
                   ELSE s.timeline[Len(s.timeline)].t + SamplePeriod(s.timeline[Len(s.timeline)].rate)
        IN  \A i \in 1..Len(s.packets) :
                (s.cls[i] = {} /\ t.cls[i] = {"Accept"} /\ SingleRate(s, i)) =>
                    LET per == SamplePeriod(SampleRate(s.packets[i].pt))
                        pos == PositionOf(s, i)
                        n == (pos - end) \div per
                    IN  IF pos > end
                        THEN /\ t.silence = Append(s.silence, [t |-> end, n |-> n])
                             /\ end + n * per = pos
                             /\ Extends(t.timeline, s.timeline, end, per,
                                        SilenceSamples(n) \o PacketSamples(s.packets[i]))
                        ELSE /\ t.silence = s.silence
                             /\ Extends(t.timeline, s.timeline, end, per,
                                        PacketSamples(s.packets[i]))

C8_UninterruptedPart ==
    \A r \in Rows :
        (Decoded(r) /\ timingComboBox = Uninterrupted)
            => BackToBack(streams[r], {"Accept", "DecodeFailed"})

Range(q) == {q[k] : k \in 1..Len(q)}

\* the packet of the jitter buffer of s that arrived first
OldestBuffered(s) ==
    CHOOSE i \in Range(s.jbuf) :
        \A j \in Range(s.jbuf) : s.packets[i].arr <= s.packets[j].arr

C9_Step ==
    InPass =>
        LET s == streams[row]
            t == streams'[row]
            new == Range(t.jbuf) \ Range(s.jbuf)
        IN  IF new # {} /\ Len(s.jbuf) = jitterSpinBox
            THEN /\ new = {s.order[s.cur]}
                 /\ Range(t.jbuf) = (Range(s.jbuf) \ {OldestBuffered(s)}) \cup new
                 /\ Len(t.jbuf) = jitterSpinBox
                 /\ Len(t.jitter_drop) = Len(s.jitter_drop) + 1
                 /\ t.jitter_drop[Len(t.jitter_drop)].frame = s.packets[OldestBuffered(s)].frame
                 /\ t.cls[OldestBuffered(s)] = {"JitterDrop"}
            ELSE t.jitter_drop = s.jitter_drop

\* C9: the jitter buffer of a stream never holds more packets than the depth
\* the dialog's control shows; a step of a decode() pass that admits a packet
\* to a full buffer evicts the packet that has been buffered longest and
\* classifies that packet JitterDrop, and no other step adds to the
\* jitter-dropped list.
C9_BufferBound ==
    /\ [](\A r \in Rows : Len(streams[r].jbuf) <= jitterSpinBox)
    /\ [][C9_Step]_vars

C9_Witness ==
    /\ pc = "scan"
    /\ timingComboBox = JitterBuffer
    /\ jitterSpinBox > 1
    /\ \E r \in Rows :
        /\ streams[r].active
        /\ Len(streams[r].jbuf) = jitterSpinBox
        /\ streams[r].jitter_drop # <<>>
        /\ \E i \in InCategory(streams[r], "JitterDrop") :
               \E j \in Range(streams[r].jbuf) :
                   wrap16(streams[r].packets[j].seq - streams[r].packets[i].seq) < 0

\* C10: a decode() with the JitterBuffer mode and depth 0 chosen accepts the
\* packets in the order in which a decode() in the Uninterrupted mode accepts
\* the same packets, and puts every packet in the same category.
C10_ZeroDepth ==
    \A r \in Rows :
        (Decoded(r) /\ timingComboBox = JitterBuffer /\ jitterSpinBox = 0) =>
            LET s == streams[r]
                u == decode(setTimingMode(reset(s, s.start_time), Uninterrupted))
            IN  /\ FramesOf(s.timeline) = FramesOf(u.timeline)
                /\ s.cls = u.cls

C10_Witness ==
    \E r \in Rows :
        /\ Decoded(r)
        /\ timingComboBox = JitterBuffer
        /\ jitterSpinBox = 0
        /\ streams[r].silence # <<>>
        /\ streams[r].out_of_seq # <<>>
        /\ streams[r].n_accepted >= 2

(***************************************************************************)
(* Placement by RTP timestamp.                                             *)
(***************************************************************************)
\* where the timeline tl holds the first sample of the packet of frame f
IndexOf(tl, f) == CHOOSE k \in 1..Len(tl) : tl[k].v = [f |-> f, k |-> 1]

\* no two packets of s carry the same RTP timestamp
DistinctTs(s) ==
    \A i, j \in 1..Len(s.packets) : i # j => s.packets[i].ts # s.packets[j].ts

\* the stream s had its packets arrived in the order pi of them
Permuted(s, pi) == [s EXCEPT !.packets = [k \in 1..Len(s.packets) |-> s.packets[pi[k]]]]

\* the accepted packet i of s lies where its timestamp puts it
AtPosition(s, i) ==
    s.timeline[IndexOf(s.timeline, s.packets[i].frame)].t = PositionOf(s, i)

\* the accepted packet i of s lies where its timestamp puts it or, the
\* timeline reaching beyond that position already, where the timeline ended
AtPositionOrEnd(s, i) ==
    LET k == IndexOf(s.timeline, s.packets[i].frame)
        pos == PositionOf(s, i)
    IN  \/ s.timeline[k].t = pos
        \/ /\ k > 1
           /\ s.timeline[k].t = s.timeline[k - 1].t + SamplePeriod(s.timeline[k - 1].rate)
           /\ s.timeline[k].t > pos

\* a decode() of the packets of s in any other arrival order gives the timeline
\* of s
SamePlacement(s) ==
    \A pi \in Permutations(1..Len(s.packets)) :
        decode(reset(Permuted(s, pi), s.start_time)).timeline = s.timeline

NoJitterDrop(s) == s.jitter_drop = <<>> /\ InCategory(s, "JitterDrop") = {}

Failing(s) == {i \in 1..Len(s.packets) : ~s.packets[i].ok}

\* s with every payload intact
Repaired(s) == [s EXCEPT !.packets = [i \in 1..Len(s.packets) |-> [s.packets[i] EXCEPT !.ok = TRUE]]]

\* the timeline tl with the samples of the packets of the given frames made
\* silence
Muted(tl, frames) ==
    [k \in 1..Len(tl) |-> IF tl[k].v.f \in frames THEN [tl[k] EXCEPT !.v = Silence] ELSE tl[k]]

\* a pass under way can take its next step
CanStep(s) == CanDrain(s) \/ CanDecodePacket(s) \/ CanFlush(s) \/ CanEndPass(s)

\* the decoded stream s is what a decode() of the same packets, every payload
\* intact, gives, but for the packets that fail: those count as failures,
\* and their samples are silence
AsIfSilent(s) ==
    LET u == decode(reset(Repaired(s), s.start_time))
        bad == {i \in Failing(s) : "Accept" \in u.cls[i]}
    IN  /\ \A i \in 1..Len(s.packets) :
               s.cls[i] = IF i \in bad THEN {"DecodeFailed"} ELSE u.cls[i]
        /\ s.n_failed = Cardinality(bad)
        /\ s.n_accepted = u.n_accepted - Cardinality(bad)
        /\ s.timeline = Muted(u.timeline, {s.packets[i].frame : i \in bad})
        /\ s.out_of_seq = u.out_of_seq
        /\ s.wrong_ts = u.wrong_ts
        /\ s.jitter_drop = u.jitter_drop
        /\ s.silence = u.silence

\* C12: a decode() of packets some of which fail to decode never stops short:
\* a pass under way can always take its next step and ends with every packet
\* in a category; a failing packet that would have been accepted counts as a
\* decode failure with silence in place of its samples, and every other
\* packet has the category and the place it has when the failing packets
\* decode.
C12_FailureIsSilence ==
    \A r \in Rows :
        /\ streams[r].active => CanStep(streams[r])
        /\ Decoded(r) =>
               /\ \A i \in 1..Len(streams[r].packets) : streams[r].cls[i] # {}
               /\ AsIfSilent(streams[r])

\* a packet that fails to decode between two accepted ones
C12_Witness ==
    \E r \in Rows :
        /\ Decoded(r)
        /\ \E i \in InCategory(streams[r], "DecodeFailed"), j, k \in InCategory(streams[r], "Accept") :
               /\ TsDiff(streams[r].packets[i].ts, streams[r].packets[j].ts) > 0
               /\ TsDiff(streams[r].packets[k].ts, streams[r].packets[i].ts) > 0
               /\ streams[r].timeline[Len(streams[r].timeline)].v.f = streams[r].packets[k].frame

(***************************************************************************)
(* Payload type changes.                                                   *)
(***************************************************************************)
\* the samples the timeline tl holds of the packet of frame f
SamplesOf(tl, f) == {k \in 1..Len(tl) : tl[k].v.f = f}

\* every sample of tl lies one sample period, at its own rate, before the next
Contiguous(tl) ==
    \A k \in 1..Len(tl) :
        /\ tl[k].rate # 0
        /\ k < Len(tl) => tl[k + 1].t = tl[k].t + SamplePeriod(tl[k].rate)

\* the rate of tl changes only at the first sample of a packet of the new rate
SwitchAtPacket(s) ==
    \A k \in 1..(Len(s.timeline) - 1) :
        s.timeline[k + 1].rate # s.timeline[k].rate =>
            \E i \in InCategory(s, "Accept") :
                /\ s.timeline[k + 1].v = [f |-> s.packets[i].frame, k |-> 1]
                /\ SampleRate(s.packets[i].pt) = s.timeline[k + 1].rate

\* the packets of s of a payload type that is not recognized
Unrecognized(s) == {i \in 1..Len(s.packets) : SampleRate(s.packets[i].pt) = 0}

\* C13: a decode() of packets whose payload type changes ends with every
\* packet in a category; every accepted packet's samples are in the timeline
\* at the rate of its payload type, every sample lies one sample period at
\* its own rate before the next, and the rate changes only at the first
\* sample of a packet of the new rate; a packet of a payload type that is
\* not recognized has no sample of its own in the timeline and is never
\* accepted, and no sample has rate 0.
C13_PayloadChange ==
    \A r \in Rows :
        /\ streams[r].active => CanStep(streams[r])
        /\ Decoded(r) =>
               LET s == streams[r]
               IN  /\ \A i \in 1..Len(s.packets) : s.cls[i] # {}
                   /\ Contiguous(s.timeline)
                   /\ SwitchAtPacket(s)
                   /\ \A i \in InCategory(s, "Accept") :
                          /\ Cardinality(SamplesOf(s.timeline, s.packets[i].frame)) = SamplesPerPacket
                          /\ \A k \in SamplesOf(s.timeline, s.packets[i].frame) :
                                 s.timeline[k].rate = SampleRate(s.packets[i].pt)
                   /\ \A i \in Unrecognized(s) :
                          /\ "Accept" \notin s.cls[i]
                          /\ SamplesOf(s.timeline, s.packets[i].frame) = {}

\* a stream that changes from the 8 kHz to the 16 kHz codec and then to a
\* payload type that is not recognized, for which silence was put
C13_Witness ==
    \E r \in Rows :
        /\ Decoded(r)
        /\ LET s == streams[r]
           IN  /\ \E k \in 1..(Len(s.timeline) - 1) :
                      /\ s.timeline[k].rate = SampleRate(PT8k)
                      /\ s.timeline[k + 1].rate = SampleRate(PT16k)
               /\ \E i \in Unrecognized(s) : "DecodeFailed" \in s.cls[i]
               /\ s.timeline[Len(s.timeline)].v = Silence

(***************************************************************************)
(* The packet under the mouse.                                             *)
(***************************************************************************)
\* the time of packet i of s on the axis shown
TimeOn(s, i, relative) == s.packets[i].arr + (IF relative THEN 0 ELSE AbsStart)

\* C14: the packet number updateHintLabel gets for a row with packets is the
\* frame number of a packet of that row's stream whose time is nearest to the
\* time under the mouse: of its first packet for a time before all of them,
\* of its last for a time after all of them; without a current item, or
\* without packets, it is 0.
C14_NearestPacket ==
    pc = "hint" =>
        IF hint.item = 0 \/ streams[hint.item].packets = <<>>
        THEN hint.packet_num = 0
        ELSE LET s == streams[hint.item]
                 n == Len(s.packets)
                 d(i) == Abs(TimeOn(s, i, hint.relative) - hint.ts)
             IN  /\ \E i \in 1..n :
                        /\ hint.packet_num = s.packets[i].frame
                        /\ \A j \in 1..n : d(i) <= d(j)
                 /\ hint.ts < TimeOn(s, 1, hint.relative) => hint.packet_num = s.packets[1].frame
                 /\ hint.ts > TimeOn(s, n, hint.relative) => hint.packet_num = s.packets[n].frame

\* the mouse at a time of day after the last of several packets
C14_Witness ==
    /\ pc = "hint"
    /\ hint.item # 0
    /\ ~hint.relative
    /\ Len(streams[hint.item].packets) > 1
    /\ hint.ts > TimeOn(streams[hint.item], Len(streams[hint.item].packets), FALSE)
    /\ hint.packet_num = streams[hint.item].packets[Len(streams[hint.item].packets)].frame

(***************************************************************************)
(* Routing of packets to streams.                                          *)
(***************************************************************************)
\* the rows of strs whose stream matches the key of packet p
Matching(strs, p) == {r \in DOMAIN strs : isMatch(strs[r], p.key)}

\* addPacket(p) on the rows strs gives the rows t: one matching row has the
\* packet appended and every other row is as it was, or no row matches and
\* t is strs
RoutedToOne(strs, p, frame, t) ==
    /\ DOMAIN t = DOMAIN strs
    /\ IF Matching(strs, p) = {}
       THEN t = strs
       ELSE \E r \in Matching(strs, p) :
                /\ t[r] = addRtpPacket(strs[r], p, frame)
                /\ t[r].packets = Append(strs[r].packets, t[r].packets[Len(t[r].packets)])
                /\ \A q \in DOMAIN strs : q # r => t[q] = strs[q]

\* C15: while packets are tapped, addPacket of any packet of the capture
\* appends it to exactly one row whose stream matches its key and leaves every
\* other row alone, also where several rows match (the rows listed twice);
\* when no row matches, no row changes.
C15_OneStream ==
    pc = "tap" =>
        \A p \in MixedPool :
            /\ RoutedToOne(streams, p, tapped + 1, addPacket(streams, p, tapped + 1))
            /\ RoutedToOne(streams \o streams, p, tapped + 1,
                           addPacket(streams \o streams, p, tapped + 1))

\* two streams that each took a packet, and a third packet arriving
C15_Witness ==
    /\ pc = "tap"
    /\ Len(streams) = 2
    /\ \A r \in Rows : streams[r].packets # <<>>
    /\ NextPackets # {}

(***************************************************************************)
(* Tapping and decoding do not overlap.                                    *)
(***************************************************************************)
\* the packets of some stream change in this step
PacketsChange ==
    \E r \in DOMAIN streams \cap DOMAIN streams' : streams'[r].packets # streams[r].packets

\* the tap listener is registered
Listening == pc = "tap"

C16_Step ==
    /\ PacketsChange => (Listening /\ Listening' /\ \A r \in Rows : ~streams[r].active)
    /\ Listening => \A r \in Rows : ~streams[r].active /\ ~streams'[r].active
    /\ (~Listening /\ Listening') => (~retapped /\ pc = "idle")
    /\ (pc # "scan" /\ pc' = "scan" /\ retapped) => ~Listening'

\* C16: the packets of a stream change only while the tap listener is
\* registered, and no decode() is under way then; the listener is registered
\* once, before the first rescan, and a rescan starts with the listener
\* removed, so that no packet is added during a rescan or after it.
C16_TapThenDecode == [][C16_Step]_vars

\* a decode() under way over the packets the tap delivered
C16_Witness ==
    /\ pc = "scan"
    /\ retapped
    /\ \E r \in Rows :
           /\ streams[r].active
           /\ streams[r].cur > 1
           /\ Len(streams[r].packets) > 1

(***************************************************************************)
(* Streams are independent.                                                *)
(***************************************************************************)
\* a stream made for the key of s that was given the packets of s and the
\* configuration of s and was decoded on its own
Alone(s) ==
    LET fresh == [NewStream([key |-> s.key, start_rel_time |-> s.start_rel_time])
                      EXCEPT !.packets = s.packets]
    IN  decode(setTimingMode(setJitterBufferSize(reset(fresh, s.start_time),
                                                 s.jitter_buffer_size),
                             s.timing_mode))

IsReset(s, t) ==
    /\ s.start_time = t
    /\ IsEmptied(s)
    /\ ~s.active

\* a rescan starts in this step
RescanStarts == pc # "scan" /\ pc' = "scan"

\* the decode() of the row scanned begins in this step
DecodeBegins ==
    /\ pc = "scan"
    /\ row \in Rows
    /\ ~streams[row].active
    /\ streams'[row].active

C18_Step ==
    /\ RescanStarts =>
           \A r \in Rows :
               /\ IsReset(streams'[r], start_rel_time_)
               /\ streams'[r].packets = streams[r].packets
    /\ DecodeBegins =>
           /\ streams'[row].jitter_buffer_size = jitterSpinBox
           /\ streams'[row].timing_mode =
                  (CASE timingComboBox = RtpTimestamp -> RtpTimestamp
                     [] timingComboBox = Uninterrupted -> Uninterrupted
                     [] OTHER -> JitterBuffer)
           /\ IsReset(streams[row], start_rel_time_)
           /\ \A r \in Rows : r > row => IsReset(streams'[r], start_rel_time_)

\* C18: a rescan begins by resetting every stream with the dialog's start
\* time, keeping its packets; when the decode() of a row begins, that stream
\* and the streams of the rows after it are still as reset left them, and
\* the stream's jitter buffer size is the value of the jitter control and
\* its timing mode RtpTimestamp or Uninterrupted when the timing control's
\* index is that mode's value, JitterBuffer for every other index.
C18_ResetThenConfigure == [][C18_Step]_vars

\* the second row's stream, decoded before with other settings, begins its
\* decode() in JitterBuffer mode because the timing control has no index
C18_Witness ==
    /\ pc = "scan"
    /\ Len(streams) = 2
    /\ row = 2
    /\ timingComboBox = NoIndex
    /\ jitterSpinBox > 0
    /\ start_rel_time_ > 0
    /\ streams[2].active
    /\ streams[2].decoded
    /\ streams[2].cur = 1
    /\ streams[2].timing_mode = JitterBuffer
    /\ streams[1].timeline # <<>>

(***************************************************************************)
(* Playback.                                                               *)
(***************************************************************************)
\* some stream is playing
Playing == \E r \in Rows : streams[r].output_state # "Idle"

\* what decode() left in the streams does not change in this step
OutputsKept ==
    /\ Rows \subseteq DOMAIN streams'
    /\ \A r \in Rows : Outputs(streams'[r]) = Outputs(streams[r])

C19_Step == Playing => (OutputsKept /\ pc' # "scan")

\* C19: while a stream is playing, the jitter, timing mode and time-of-day
\* controls and the output device box are disabled and the stop button is
\* enabled; no rescan starts, and the timelines, event lists and counts of
\* the streams stay as they are.
C19_ReadOnlyWhilePlaying ==
    /\ [](Playing => (~enabled.timing /\ ~enabled.play /\ enabled.stop /\ pc \in {"idle", "hint"}))
    /\ [][C19_Step]_vars

\* one of two decoded streams still playing, the other finished
C19_Witness ==
    /\ Len(streams) = 2
    /\ streams[1].output_state = "Idle"
    /\ streams[2].output_state # "Idle"
    /\ streams[2].timeline # <<>>
    /\ ~enabled.timing

(***************************************************************************)
(* The dialog's start time.                                                *)
(***************************************************************************)
\* the earliest start time of the streams added
MinStart == CHOOSE t \in {streams[r].start_rel_time : r \in Rows} :
                \A r \in Rows : t <= streams[r].start_rel_time

\* C20: once streams were added, start_rel_time_ is the smallest start time
\* of the streams added so far.
C20_MinStartTime == streams # <<>> => start_rel_time_ = MinStart

(***************************************************************************)
(* The stream list.                                                        *)
(***************************************************************************)
\* no two rows hold a stream of the same key
OnePerKey == \A r1, r2 \in Rows : isMatch(streams[r1], streams[r2].key) => r1 = r2

\* the rows stay, each with the stream it has; at most one row is added,
\* and only for a key that no row's stream matched
C21_Step ==
    /\ Rows \subseteq DOMAIN streams'
    /\ \A r \in Rows : streams'[r].key = streams[r].key
    /\ Len(streams') <= Len(streams) + 1
    /\ Len(streams') = Len(streams) + 1 =>
           /\ \A r \in Rows : ~isMatch(streams[r], streams'[Len(streams')].key)
           /\ streams'[Len(streams')].packets = <<>>

\* C21: there is at most one stream per stream key: a step adds a stream
\* only when no stream matches the key of the rtpstream_info, an
\* addRtpStream with a null rtpstream or with a key that has a stream adds
\* none, and no stream is ever removed.
C21_OnePerKey == []OnePerKey /\ [][C21_Step]_vars

\* two streams, the first added first, and a dialog start time that only a
\* further addRtpStream of the first stream leaves: that call added no row
C21_Witness ==
    /\ Len(streams) = 2
    /\ streams[1].start_rel_time < streams[2].start_rel_time
    /\ start_rel_time_ = streams[1].start_rel_time

(***************************************************************************)
(* What the tap listener adds.                                             *)
(***************************************************************************)
\* the rows t hold the packets the rows strs hold
SamePackets(strs, t) ==
    /\ DOMAIN t = DOMAIN strs
    /\ \A r \in DOMAIN strs : t[r].packets = strs[r].packets

\* a tapped frame that is to be added: it has RTP info, passed the display
\* filter and is of RTP version 2
Wanted(p) == p # NullInfo /\ p.passed_dfilter # 0 /\ p.info_version = 2

C22_Call ==
    pc = "tap" =>
        \A p \in TapInputs :
            LET res == tapPacketOf(streams, p, tapped + 1)
            IN  /\ res.status = TAP_PACKET_DONT_REDRAW
                /\ ~Wanted(p) => res.streams = streams
                /\ ~SamePackets(streams, res.streams) => Wanted(p)
                /\ Wanted(p) => res.streams = addPacket(streams, p, tapped + 1)

C22_Step ==
    tapped' # tapped =>
        \E p \in TapInputs :
            /\ streams' = tapPacketOf(streams, p, tapped + 1).streams
            /\ ~SamePackets(streams, streams') => Wanted(p)

\* C22: a call of tapPacket changes the packets of a stream only for a
\* frame that has RTP info, passed the display filter and is of RTP version
\* 2, which it hands to addPacket; for every other frame it leaves the
\* streams as they are; and it returns TAP_PACKET_DONT_REDRAW for every
\* frame.
C22_OnlyShownVersion2 == []C22_Call /\ [][C22_Step]_vars

\* both streams are in the list and the second frame was added though the
\* first was not: the first had no RTP info, was filtered out or was not of
\* version 2
C22_Witness ==
    /\ pc = "tap"
    /\ tapped = 2
    /\ Len(streams) = 2
    /\ \E r \in Rows : streams[r].packets # <<>> /\ streams[r].packets[1].frame = 2

(***************************************************************************)
(* The controls after updateWidgets.                                       *)
(***************************************************************************)
AllIdle == \A r \in Rows : streams[r].output_state = "Idle"

\* the controls are as the streams' output states ask
Settled ==
    /\ enabled.play <=> AllIdle
    /\ enabled.stop <=> ~AllIdle
    /\ cur_play_pos_.visible <=> ~AllIdle
    /\ enabled.timing <=> AllIdle

\* the steps that end with a call of updateWidgets: the end of a rescan, a
\* click on the plot, a stream that started or finished playing
UpdateWidgetsCalled ==
    \/ rescanReturn
    \/ graphClicked
    \/ \E r \in Rows : finishedPlaying(r)
    \/ \E started \in Starts \ {{}} : on_playButton_clicked(started)
    \/ Playing /\ on_stopButton_clicked
    \/ Playing /\ accept

C23_Step ==
    UpdateWidgetsCalled =>
        /\ Settled'
        /\ ~(enabled'.play /\ enabled'.stop)
        /\ streams' = <<>> => (enabled'.play /\ ~enabled'.stop)

\* C23: after every call of updateWidgets the play button and the output
\* device box are enabled exactly when every stream is Idle, the stop button
\* is enabled and the playback cursor visible exactly when some stream is
\* not Idle, and the jitter, timing mode and time-of-day controls are
\* enabled exactly when every stream is Idle; so play and stop are not both
\* enabled then, and with no stream play is enabled and stop is not.
C23_Controls == [][C23_Step]_vars

\* one of two streams has finished and the other still plays: stop is
\* enabled, the cursor shows, play and the timing controls are disabled
C23_Witness ==
    /\ Len(streams) = 2
    /\ streams[1].output_state = "Idle"
    /\ streams[2].output_state # "Idle"
    /\ streams[1].timeline # <<>>
    /\ enabled = [play |-> FALSE, stop |-> TRUE, timing |-> FALSE]
    /\ cur_play_pos_.visible

(***************************************************************************)
(* The playback cursor.                                                    *)
(***************************************************************************)
C24_Step ==
    /\ (Playing /\ Playing') => cur_play_pos_'.key >= cur_play_pos_.key
    /\ (\E started \in Starts : on_playButton_clicked(started))
           => cur_play_pos_'.key = start_rel_time_
    /\ \A r \in Rows, secs \in PlaySecs :
           setPlayPosition(r, secs) =>
               cur_play_pos_'.key = IF secs + start_rel_time_ > cur_play_pos_.key
                                    THEN secs + start_rel_time_
                                    ELSE cur_play_pos_.key

\* C24: while streams play the cursor never moves to a smaller position: a
\* click on play puts it at start_rel_time_, a setPlayPosition(secs) moves it
\* to secs + start_rel_time_ when that is greater than its position and
\* leaves it otherwise, so that it is at the largest position it was given
\* since play was clicked, whatever the order in which the streams report.
C24_NeverBackwards == [](cur_play_pos_.key = reported) /\ [][C24_Step]_vars

\* two streams play, the dialog starts late, and the cursor is at the
\* largest position a stream can report
C24_Witness ==
    /\ Len(streams) = 2
    /\ \A r \in Rows : streams[r].output_state # "Idle"
    /\ start_rel_time_ > 0
    /\ cur_play_pos_.visible
    /\ cur_play_pos_.key = MaxSecs + start_rel_time_

(***************************************************************************)
(* Closing the dialog.                                                     *)
(***************************************************************************)
Closed == pc = "closed"

C25_Step ==
    /\ (~Closed /\ Closed') =>
           /\ accept \/ reject
           /\ DOMAIN streams' = Rows
           /\ \A r \in Rows :
                  streams'[r] = [streams[r] EXCEPT !.output_state = "Idle"]
    /\ Closed => Closed'

\* C25: the dialog closes only by accept or reject, in a step that has
\* stopped every stream of the list, so that no stream plays once the
\* dialog is closed.
C25_StoppedBeforeClose == [](Closed => AllIdle) /\ [][C25_Step]_vars

\* the dialog is closed with two streams that had played part of the audio
C25_Witness ==
    /\ Closed
    /\ Len(streams) = 2
    /\ \A r \in Rows : streams[r].timeline # <<>>
    /\ cur_play_pos_.key > start_rel_time_
    /\ cur_play_pos_.key < MaxSecs + start_rel_time_

====
